---- MODULE Spec2Model ----
(***************************************************************************)
(* A model of j-archive-parser-go: the parse package (Run, getAllSeasons,  *)
(* parseSeason, parseEpisode, parseRound) and the season fan-out of the    *)
(* download package.                                                       *)
(*                                                                         *)
(* Text that the code inspects character by character (value text, page    *)
(* titles, directory names) is a sequence of one-character strings; text   *)
(* that the code only copies (questions, answers, category names) is an    *)
(* atomic string.                                                          *)
(***************************************************************************)
EXTENDS Integers, Sequences, FiniteSets, TLC

VARIABLES
    \* ---- value normalization (parseRound, lines 203-217)
    valueText,      \* text of the td[class*='clue_value'] node
    valueRaw,       \* strings.TrimSpace(valueText)
    value,          \* the normalized value
    dailyDouble,    \* "true" / "false"
    vpc,            \* "start" | "done"
    \* ---- one grid round (parseRound, round < 2)
    round,          \* 0 = Jeopardy, 1 = Double Jeopardy
    categories,     \* texts of td.category_name, in document order
    cells,          \* the td.clue cells visited so far, in document order
    x,              \* the column cursor
    rows,           \* the rows appended so far
    \* ---- one episode (parseEpisode)
    page,           \* the parsed document
    epc,            \* position in parseEpisode
    epNum, airDate, \* fields taken from the title
    has,            \* hasRoundJ, hasRoundDJ, hasRoundFJ, hasRoundTB
    rounds,         \* the rounds appended so far
    err,            \* "" | "open" | "norounds"
    \* ---- the season fan-out (Run, parseSeason)
    mode,           \* "parse" | "download"
    fs,             \* the directory tree read by parse.Run
    numThreads,     \* runtime.NumCPU() * 2
    seasons,        \* the season numbers Run iterates over
    runPc,          \* position of Run's goroutine
    next,           \* index of the next season of the range loop
    wg,             \* the WaitGroup counter
    sem,            \* number of tokens in the buffered channel
    wpc,            \* position of each season goroutine
    wi,             \* each parseSeason's index into the directory entries
    wbuf,           \* each csv.Writer's buffered rows
    woff,           \* each open file handle's offset
    files           \* the csv files: season number -> rows on disk

valueVars == <<valueText, valueRaw, value, dailyDouble, vpc>>
roundVars == <<round, categories, cells, x, rows>>
episodeVars == <<page, epc, epNum, airDate, has, rounds, err>>
runVars == <<mode, fs, numThreads, seasons, runPc, next, wg, sem, wpc, wi, wbuf, woff, files>>
vars == <<valueVars, roundVars, episodeVars, runVars>>

(***************************************************************************)
(* Text helpers.                                                           *)
(***************************************************************************)
Digits == {"0", "1", "2", "3", "4", "5", "6", "7", "8", "9"}

\* All sequences over S of length at most n.
SeqUpTo(S, n) == UNION {[1..k -> S] : k \in 0..n}

\* strings.HasPrefix
HasPrefix(s, p) == Len(s) >= Len(p) /\ SubSeq(s, 1, Len(p)) = p

\* strings.TrimPrefix
TrimPrefix(s, p) == IF HasPrefix(s, p) THEN SubSeq(s, Len(p) + 1, Len(s)) ELSE s

\* strings.ReplaceAll(s, c, ""), for a one-character c
RemoveAll(s, c) == SelectSeq(s, LAMBDA ch : ch # c)

RECURSIVE TrimLeftSpace(_)
TrimLeftSpace(s) ==
    IF s # <<>> /\ Head(s) = " " THEN TrimLeftSpace(Tail(s)) ELSE s

RECURSIVE TrimRightSpace(_)
TrimRightSpace(s) ==
    IF s # <<>> /\ s[Len(s)] = " " THEN TrimRightSpace(SubSeq(s, 1, Len(s) - 1)) ELSE s

\* strings.TrimSpace
TrimSpace(s) == TrimRightSpace(TrimLeftSpace(s))

\* strings.Join(vals, ",")
RECURSIVE JoinComma(_)
JoinComma(vals) ==
    IF vals = <<>> THEN <<>>
    ELSE IF Len(vals) = 1 THEN vals[1]
    ELSE vals[1] \o <<",">> \o JoinComma(Tail(vals))

(***************************************************************************)
(* Value normalization, parseRound lines 203-217.                          *)
(***************************************************************************)
DPrefix == <<"D", ":", " ", "$">>
DDMarker == <<"D", "D", ":">>
Sentinel == <<"-", "1", "0", "0">>

NormalizeValue(raw) ==
    IF raw # <<>>
    THEN TrimPrefix(RemoveAll(TrimPrefix(raw, DPrefix), ","), <<"$">>)
    ELSE Sentinel

IsDailyDouble(raw) == IF HasPrefix(raw, DDMarker) THEN "true" ELSE "false"

\* The inputs: a marker, then up to MaxBody characters of an amount, with or
\* without surrounding white space.
MaxBody == 5
Markers == { <<>>, <<"$">>, DPrefix, <<"D">> \o DPrefix, <<"D", "D", ":", " ">> }
Bodies == SeqUpTo({"0", "1", "2", ","}, MaxBody)
ValueTexts ==
    { m \o b : m \in Markers, b \in Bodies }
        \cup { <<" ">> \o m \o b \o <<" ">> : m \in Markers, b \in SeqUpTo({"1", ","}, 2) }

ValueInit ==
    /\ valueText \in ValueTexts
    /\ valueRaw = <<>>
    /\ value = <<>>
    /\ dailyDouble = "false"
    /\ vpc = "start"

ReadValue ==
    /\ vpc = "start"
    /\ valueRaw' = TrimSpace(valueText)
    /\ value' = NormalizeValue(TrimSpace(valueText))
    /\ dailyDouble' = IsDailyDouble(TrimSpace(valueText))
    /\ vpc' = "done"
    /\ UNCHANGED <<valueText, roundVars, episodeVars, runVars>>

(***************************************************************************)
(* One grid round, parseRound lines 187-268.                               *)
(*                                                                         *)
(* A td.clue cell is its value text and its td.clue_text elements in       *)
(* document order; each of these has an id ("" when the attribute is       *)
(* absent), a hidden flag (style contains display:none), its text, and the *)
(* text of the em.correct_response it holds.                               *)
(***************************************************************************)
NumCols == 6

Td(id, hidden, text, correct) ==
    [id |-> id, hidden |-> hidden, text |-> text, correct |-> correct]

EmptyCell == [valueText |-> <<>>, tds |-> <<>>]

\* The usual markup: the visible clue, then its hidden response.
PlainCell ==
    [valueText |-> <<"$", "4", "0", "0">>,
     tds |-> << Td("a", FALSE, "Q1", ""), Td("a_r", TRUE, "R1", "A1") >>]

\* The first clue-text element is hidden, the visible one follows.
HiddenFirstCell ==
    [valueText |-> <<"D", "D", ":", " ", "$", "1", ",", "0", "0", "0">>,
     tds |-> << Td("b", TRUE, "alt", ""), Td("c", FALSE, "Q2", ""),
                Td("b_r", TRUE, "Rb", "Ab"), Td("c_r", TRUE, "Rc", "Ac") >>]

\* The visible clue text is empty; a hidden element holds alternate text.
PlaceholderCell ==
    [valueText |-> <<>>,
     tds |-> << Td("d", FALSE, "", ""), Td("", TRUE, "alt", "") >>]

CellKinds == {EmptyCell, PlainCell, HiddenFirstCell, PlaceholderCell}

\* strings.TrimSpace(s.Text()) == "" for a td.clue cell s (line 196-197)
CellTextEmpty(c) ==
    /\ TrimSpace(c.valueText) = <<>>
    /\ \A k \in 1..Len(c.tds) : c.tds[k].text = ""

\* lines 219-226: the text of the first td.clue_text that is not hidden
ClueQuestion(c) ==
    LET vis == {k \in 1..Len(c.tds) : ~c.tds[k].hidden} IN
    IF vis = {} THEN ""
    ELSE c.tds[CHOOSE k \in vis : \A j \in vis : k <= j].text

\* line 231: s.Find("td.clue_text").First()
VisibleClueTd(c) == c.tds[1]

\* lines 229-247: the response found through the id of visibleClueTd.  The
\* lookup runs over the table rows above the element; ids are unique in a
\* page, so the elements of the cell itself are the ones it can find.
ClueAnswer(c) ==
    IF Len(c.tds) = 0 THEN ""
    ELSE LET clueID == VisibleClueTd(c).id
             responseSel == {k \in 1..Len(c.tds) : c.tds[k].id = clueID \o "_r"} IN
         IF clueID = "" \/ responseSel = {} THEN ""
         ELSE c.tds[CHOOSE k \in responseSel : \A j \in responseSel : k <= j].correct

\* lines 249-252
CategoryAt(cats, col) == IF col < Len(cats) THEN cats[col + 1] ELSE ""

\* lines 253-256
RoundName(r) ==
    CASE r = 0 -> "Jeopardy"
      [] r = 1 -> "Double Jeopardy"
      [] r = 2 -> "Final Jeopardy"
      [] OTHER -> "Tiebreaker"

Row(en, ad, rn, cat, val, dd, q, a) ==
    [epNum |-> en, airDate |-> ad, round_name |-> rn, category |-> cat,
     value |-> val, daily_double |-> dd, question |-> q, answer |-> a]

\* A skipped cell that leaves the cursor where it is.
AdvanceSkippedStuck(col) == col

\* line 199
AdvanceSkipped(col) == (col + 1) % NumCols

\* lines 263-267
AdvanceEmitted(col) == IF col = 5 THEN 0 ELSE col + 1

\* lines 203-260: the row of a cell that is not skipped
ClueRow(r, cats, col, c, en, ad) ==
    Row(en, ad, RoundName(r), CategoryAt(cats, col),
        NormalizeValue(TrimSpace(c.valueText)), IsDailyDouble(TrimSpace(c.valueText)),
        ClueQuestion(c), ClueAnswer(c))

\* lines 195-268: the callback of table.Find("td.clue").Each, on one cell
VisitCell(r, cats, st, c, en, ad) ==
    IF CellTextEmpty(c)
    THEN [x |-> AdvanceSkipped(st.x), rows |-> st.rows]
    ELSE [x |-> AdvanceEmitted(st.x),
          rows |-> Append(st.rows, ClueRow(r, cats, st.x, c, en, ad))]

\* lines 187-268: the whole grid round
RECURSIVE VisitCells(_, _, _, _, _, _)
VisitCells(r, cats, st, cs, en, ad) ==
    IF cs = <<>> THEN st
    ELSE VisitCells(r, cats, VisitCell(r, cats, st, Head(cs), en, ad), Tail(cs), en, ad)

ParseGrid(r, cats, cs, en, ad) ==
    VisitCells(r, cats, [x |-> 0, rows |-> <<>>], cs, en, ad).rows

MaxCells == 7
CategoryNames == <<"c1", "c2", "c3", "c4", "c5", "c6", "c7", "c8">>
SampleEpNum == <<"4", "2">>
SampleAirDate == <<"2", "0", "2", "0", "-", "0", "1", "-", "0", "2">>

ValueIdle ==
    /\ valueText = <<>> /\ valueRaw = <<>> /\ value = <<>>
    /\ dailyDouble = "false" /\ vpc = "idle"

RoundIdle ==
    /\ round = 0 /\ categories = <<>> /\ cells = <<>> /\ x = 0 /\ rows = <<>>

RoundInit ==
    /\ round = 0
    /\ \E n \in 0..NumCols : categories = SubSeq(CategoryNames, 1, n)
    /\ cells = <<>>
    /\ x = 0
    /\ rows = <<>>

\* The callback on an empty cell (lines 196-201).
SkipEmptyCell ==
    /\ Len(cells) < MaxCells
    /\ \E c \in CellKinds :
        /\ CellTextEmpty(c)
        /\ cells' = Append(cells, c)
        /\ x' = VisitCell(round, categories, [x |-> x, rows |-> rows], c, epNum, airDate).x
        /\ rows' = VisitCell(round, categories, [x |-> x, rows |-> rows], c, epNum, airDate).rows
    /\ UNCHANGED <<round, categories, valueVars, episodeVars, runVars>>

\* The callback on a cell with text (lines 203-267).
EmitClue ==
    /\ Len(cells) < MaxCells
    /\ \E c \in CellKinds :
        /\ ~CellTextEmpty(c)
        /\ cells' = Append(cells, c)
        /\ x' = VisitCell(round, categories, [x |-> x, rows |-> rows], c, epNum, airDate).x
        /\ rows' = VisitCell(round, categories, [x |-> x, rows |-> rows], c, epNum, airDate).rows
    /\ UNCHANGED <<round, categories, valueVars, episodeVars, runVars>>

(***************************************************************************)
(* The page title, parseEpisode lines 135-145, and the downloader's        *)
(* pattern for the same text (download package, line 30).                  *)
(***************************************************************************)
\* The length of the run of digits of s that starts at position i.
RECURSIVE DigitRun(_, _)
DigitRun(s, i) ==
    IF i <= Len(s) /\ s[i] \in Digits THEN 1 + DigitRun(s, i + 1) ELSE 0

\* Positions where "#" is followed by a digit: the matches of #\d
HashDigitAt(s) == {i \in 1..Len(s) : s[i] = "#" /\ DigitRun(s, i + 1) >= 1}

Min(S) == CHOOSE m \in S : \A n \in S : m <= n

\* reEpNum = `#(\d+)`, FindStringSubmatch, group 1 ("" when there is no match)
EpNumOf(titleText) ==
    IF HashDigitAt(titleText) = {} THEN <<>>
    ELSE LET i == Min(HashDigitAt(titleText)) IN
         SubSeq(titleText, i + 1, i + DigitRun(titleText, i + 1))

\* epNumRe = `#(\d{1,4})` of the download package, group 1
EpNumReOf(linkText) ==
    IF HashDigitAt(linkText) = {} THEN <<>>
    ELSE LET i == Min(HashDigitAt(linkText))
             n == DigitRun(linkText, i + 1) IN
         SubSeq(linkText, i + 1, i + (IF n > 4 THEN 4 ELSE n))

\* Positions where \d{4}-\d{2}-\d{2} matches
DateAt(s) ==
    {i \in 1..Len(s) - 9 :
        /\ \A k \in {0, 1, 2, 3, 5, 6, 8, 9} : s[i + k] \in Digits
        /\ s[i + 4] = "-" /\ s[i + 7] = "-"}

\* reAirDate.FindString(titleText)
AirDateOf(titleText) ==
    IF DateAt(titleText) = {} THEN <<>>
    ELSE SubSeq(titleText, Min(DateAt(titleText)), Min(DateAt(titleText)) + 9)

(***************************************************************************)
(* Single-clue rounds, parseRound lines 269-313.                           *)
(*                                                                         *)
(* A .final_round block is its category text, the text of td#clue_FJ, the  *)
(* response of td#clue_FJ_r (when present), the text of td#clue_TB and the *)
(* onmouseover fragment of its first div[onmouseover]: the td cells of the *)
(* fragment (labeled = carrying an attribute) and the text of its em.      *)
(***************************************************************************)
NoFragment == [exists |-> FALSE, tds |-> <<>>, em |-> ""]

Fragment(tds, em) == [exists |-> TRUE, tds |-> tds, em |-> em]

Block(cat, q, hasR, a, tb, frag) ==
    [category |-> cat, clueFJ |-> q, hasFJr |-> hasR, fjCorrect |-> a,
     clueTB |-> tb, mouseover |-> frag]

\* An empty selection: what First() and Eq(1) give when the block is missing.
NoBlock == Block("", "", FALSE, "", "", NoFragment)

\* lines 276-281: the text of every td of the fragment, joined with commas
FinalValue(frag) ==
    IF frag.exists
    THEN JoinComma([k \in 1..Len(frag.tds) |-> TrimSpace(frag.tds[k].text)])
    ELSE <<>>

\* lines 269-295
ParseFinal(table, en, ad) ==
    << Row(en, ad, RoundName(2), table.category, FinalValue(table.mouseover), "false",
           table.clueFJ, IF table.hasFJr THEN table.fjCorrect ELSE "") >>

\* lines 296-312
ParseTiebreaker(table, en, ad) ==
    << Row(en, ad, RoundName(3), table.category, <<>>, "false",
           table.clueTB, IF table.mouseover.exists THEN table.mouseover.em ELSE "") >>

\* parseRound, lines 184-316
ParseRound(r, table, en, ad) ==
    CASE r < 2 -> ParseGrid(r, table.cats, table.cells, en, ad)
      [] r = 2 -> ParseFinal(table, en, ad)
      [] r = 3 -> ParseTiebreaker(table, en, ad)
      [] OTHER -> <<>>

(***************************************************************************)
(* One episode, parseEpisode lines 123-181.                                *)
(*                                                                         *)
(* A page is: whether the file opens and parses, the title text, the       *)
(* #jeopardy_round and #double_jeopardy_round tables (absent, or their     *)
(* category texts and clue cells), whether #final_jeopardy_round exists,   *)
(* and the .final_round blocks inside it.                                  *)
(***************************************************************************)
NoTable == [present |-> FALSE, cats |-> <<>>, cells |-> <<>>]

Table(cats, cs) == [present |-> TRUE, cats |-> cats, cells |-> cs]

\* A tiebreaker test that one block satisfies.
HasRoundTBOneBlock(p) == Len(p.blocks) > 0

\* lines 147-150
HasRoundJ(p) == p.j.present
HasRoundDJ(p) == p.dj.present
HasRoundFJ(p) == p.final
HasRoundTB(p) == Len(p.blocks) > 1

\* line 166: .First(); line 172: .Eq(1)
BlockAt(p, k) == IF k <= Len(p.blocks) THEN p.blocks[k] ELSE NoBlock

\* The rows of all rounds, as parseSeason writes them (lines 112-116).
RECURSIVE Flatten(_)
Flatten(rs) == IF rs = <<>> THEN <<>> ELSE Head(rs) \o Flatten(Tail(rs))

\* A test for rounds without rows instead of no rounds.
NoRoundsByRows(rs) == Flatten(rs) = <<>>

\* line 177
NoRounds(rs) == Len(rs) = 0

\* lines 124-133: the file cannot be opened or read
OpenFails ==
    /\ epc = "open"
    /\ ~page.readable
    /\ err' = "open"
    /\ epc' = "done"
    /\ UNCHANGED <<page, epNum, airDate, has, rounds, valueVars, roundVars, runVars>>

\* lines 135-145
ExtractTitle ==
    /\ epc = "open"
    /\ page.readable
    /\ epNum' = EpNumOf(page.title)
    /\ airDate' = AirDateOf(page.title)
    /\ epc' = "locate"
    /\ UNCHANGED <<page, has, rounds, err, valueVars, roundVars, runVars>>

\* lines 147-152
LocateRounds ==
    /\ epc = "locate"
    /\ has' = [J |-> HasRoundJ(page), DJ |-> HasRoundDJ(page),
               FJ |-> HasRoundFJ(page), TB |-> HasRoundTB(page)]
    /\ rounds' = <<>>
    /\ epc' = "J"
    /\ UNCHANGED <<page, epNum, airDate, err, valueVars, roundVars, runVars>>

\* lines 154-158
EpisodeJ ==
    /\ epc = "J"
    /\ rounds' = IF has.J THEN Append(rounds, ParseRound(0, page.j, epNum, airDate))
                 ELSE rounds
    /\ epc' = "DJ"
    /\ UNCHANGED <<page, epNum, airDate, has, err, valueVars, roundVars, runVars>>

\* lines 159-163
EpisodeDJ ==
    /\ epc = "DJ"
    /\ rounds' = IF has.DJ THEN Append(rounds, ParseRound(1, page.dj, epNum, airDate))
                 ELSE rounds
    /\ epc' = "FJ"
    /\ UNCHANGED <<page, epNum, airDate, has, err, valueVars, roundVars, runVars>>

\* lines 164-169
EpisodeFJ ==
    /\ epc = "FJ"
    /\ rounds' = IF has.FJ
                 THEN Append(rounds, ParseRound(2, BlockAt(page, 1), epNum, airDate))
                 ELSE rounds
    /\ epc' = "TB"
    /\ UNCHANGED <<page, epNum, airDate, has, err, valueVars, roundVars, runVars>>

\* lines 170-175
EpisodeTB ==
    /\ epc = "TB"
    /\ rounds' = IF has.TB
                 THEN Append(rounds, ParseRound(3, BlockAt(page, 2), epNum, airDate))
                 ELSE rounds
    /\ epc' = "return"
    /\ UNCHANGED <<page, epNum, airDate, has, err, valueVars, roundVars, runVars>>

\* lines 177-180
EpisodeReturn ==
    /\ epc = "return"
    /\ err' = IF NoRounds(rounds) THEN "norounds" ELSE ""
    /\ rounds' = IF NoRounds(rounds) THEN <<>> ELSE rounds
    /\ epc' = "done"
    /\ UNCHANGED <<page, epNum, airDate, has, valueVars, roundVars, runVars>>

EpisodeNext ==
    \/ OpenFails
    \/ ExtractTitle
    \/ LocateRounds
    \/ EpisodeJ
    \/ EpisodeDJ
    \/ EpisodeFJ
    \/ EpisodeTB
    \/ EpisodeReturn

\* ---- the pages explored
MaxGridCells == 2
MaxBlocks == 2
MaxDigits == 5

LabeledTd(t) == [labeled |-> TRUE, text |-> t]
PlainTd(t) == [labeled |-> FALSE, text |-> t]

Fragments ==
    { NoFragment,
      Fragment(<<>>, "Af"),
      Fragment(<< PlainTd(<<"$", "5">>), PlainTd(<<" ", "$", "0">>) >>, "Af"),
      Fragment(<< LabeledTd(<<"A", "m", "y">>), PlainTd(<<"$", "5">>) >>, "Af"),
      Fragment(<< LabeledTd(<<"A", "m", "y">>), PlainTd(<<"$", "5">>),
                  LabeledTd(<<"B", "o">>), PlainTd(<<"$", "0">>) >>, "Af") }

FirstBlocks ==
    { Block("cf", "Qf", FALSE, "", "", f) : f \in Fragments }
        \cup { Block("cf", "Qf", TRUE, "Rf", "", NoFragment) }

LaterBlocks ==
    { Block("ct", "", FALSE, "", "Qt", Fragment(<<>>, "At")),
      Block("ct", "", FALSE, "", "Qt", NoFragment) }

BlockSeqs ==
    {<<>>} \cup
    UNION { { <<b>> \o t : b \in FirstBlocks, t \in [1..n -> LaterBlocks] } :
            n \in 0..(MaxBlocks - 1) }

JTables ==
    {NoTable} \cup
    { Table(SubSeq(CategoryNames, 1, 2), cs) :
        cs \in SeqUpTo({EmptyCell, PlainCell, HiddenFirstCell}, MaxGridCells) }

DJTables == { NoTable, Table(<<>>, <<EmptyCell>>), Table(<<"c1">>, <<PlainCell>>) }

TitleSamples ==
    { <<"J">>, <<"#", "7", " ">> \o SampleAirDate }

Page(readable, title, j, dj, final, blocks) ==
    [readable |-> readable, title |-> title, j |-> j, dj |-> dj,
     final |-> final, blocks |-> blocks]

Pages ==
    { Page(TRUE, t, j, dj, TRUE, bs) :
        t \in TitleSamples, j \in JTables, dj \in DJTables, bs \in BlockSeqs }
    \cup { Page(TRUE, t, j, dj, FALSE, <<>>) :
        t \in TitleSamples, j \in JTables, dj \in DJTables }
    \cup { Page(FALSE, <<>>, NoTable, NoTable, FALSE, <<>>) }

\* Titles: some text, then "#" and up to MaxDigits digits, then a date.
Titles ==
    { a \o b \o c :
        a \in { <<>>, <<"x">>, <<"#">>, <<"#", "x">> },
        b \in {<<>>} \cup { <<"#">> \o d : d \in SeqUpTo({"1", "2"}, MaxDigits) },
        c \in { <<>>, <<" ">> \o SampleAirDate, <<" ", "2", "0", "-", "0", "1", "-", "0", "2">> } }

TitlePages ==
    { Page(TRUE, t, j, NoTable, f, <<>>) :
        t \in Titles, j \in {NoTable, Table(<<"c1">>, <<PlainCell>>)}, f \in BOOLEAN }
    \cup { Page(FALSE, <<>>, NoTable, NoTable, FALSE, <<>>) }

EpisodeStart ==
    /\ epc = "open" /\ epNum = <<>> /\ airDate = <<>>
    /\ has = <<>> /\ rounds = <<>> /\ err = ""

(***************************************************************************)
(* The season fan-out: parse.Run (lines 23-51) with getAllSeasons and      *)
(* parseSeason, and download.Run (lines 33-61).                            *)
(*                                                                         *)
(* A name is a sequence of tokens; the token "season " stands for these    *)
(* seven characters, every other token is one character.  An entry of the  *)
(* site folder is a name and whether it is a directory.  Every season      *)
(* directory holds the same listing: per entry, "ok" (an episode file      *)
(* parseEpisode succeeds on), "fail" (one it fails on) or "dir".           *)
(***************************************************************************)
MaxSeason == 2
MaxEntries == 2
MaxCPU == 1
MaxArgs == 3
BufCap == 2
latestSeason == 41

Entry(name, isDir) == [name |-> name, isDir |-> isDir]

RECURSIVE Itoa(_)
Itoa(n) ==
    LET d == <<"0", "1", "2", "3", "4", "5", "6", "7", "8", "9">> IN
    IF n < 10 THEN <<d[n + 1]>> ELSE Itoa(n \div 10) \o <<d[(n % 10) + 1]>>

DigitValue(c) ==
    CASE c = "0" -> 0 [] c = "1" -> 1 [] c = "2" -> 2 [] c = "3" -> 3 [] c = "4" -> 4
      [] c = "5" -> 5 [] c = "6" -> 6 [] c = "7" -> 7 [] c = "8" -> 8 [] OTHER -> 9

\* strconv.Atoi on a string of digits
RECURSIVE Atoi(_)
Atoi(ds) ==
    IF ds = <<>> THEN 0
    ELSE 10 * Atoi(SubSeq(ds, 1, Len(ds) - 1)) + DigitValue(ds[Len(ds)])

\* re.FindString of `\d+`: the leftmost, longest run of digits
FindDigits(name) ==
    LET at == {i \in 1..Len(name) : name[i] \in Digits} IN
    IF at = {} THEN <<>>
    ELSE SubSeq(name, Min(at), Min(at) + DigitRun(name, Min(at)) - 1)

\* fmt.Sprintf("season %d", season), lines 78 of parse and 66 of download
SeasonDirName(n) == <<"season ">> \o Itoa(n)

\* The entries the site folder may hold, in the order os.ReadDir lists them.
TopEntries ==
    << Entry(<<"4", "1", ".", "t", "x", "t">>, FALSE),
       Entry(<<"n", "o", "t", "e", "s">>, TRUE),
       Entry(<<"season ", "0", "1">>, TRUE) >>
    \o [n \in 1..MaxSeason |-> Entry(SeasonDirName(n), TRUE)]

\* The listings of the site folder: the subsequences of TopEntries.
TopListings ==
    { SelectSeq(TopEntries, LAMBDA e : e \in S) :
        S \in SUBSET {TopEntries[k] : k \in 1..Len(TopEntries)} }

\* getAllSeasons, lines 54-73
RECURSIVE GetAllSeasons(_)
GetAllSeasons(entries) ==
    IF entries = <<>> THEN <<>>
    ELSE LET e == Head(entries)
             match == FindDigits(e.name) IN
         (IF e.isDir /\ match # <<>> THEN <<Atoi(match)>> ELSE <<>>)
             \o GetAllSeasons(Tail(entries))

\* os.ReadDir(seasonDir) succeeds (line 79)
SeasonDirExists(top, n) ==
    \E k \in 1..Len(top) : top[k].name = SeasonDirName(n) /\ top[k].isDir

Header == "header"
Hole == "hole"

\* The rows parseEpisode gives for entry i of season n.
EpisodeRows(n, i) == << [season |-> n, episode |-> i] >>

\* A write of buf at offset off of a file holding content.
WriteAt(content, off, buf) ==
    LET len == IF Len(content) > off + Len(buf) THEN Len(content) ELSE off + Len(buf) IN
    [k \in 1..len |->
        IF k > off /\ k <= off + Len(buf) THEN buf[k - off]
        ELSE IF k <= Len(content) THEN content[k]
        ELSE Hole]

\* line 39 of parse, line 48 of download: the capacity of the channel
NumThreads(ncpu) == ncpu * 2

\* A season goroutine that keeps its slot.
SemReleaseKept(n) == n

\* line 46 of parse, line 56 of download: <-sem
SemRelease(n) == n - 1

Workers == 1..Len(seasons)

NoFile == [exists |-> FALSE, rows |-> <<>>]

RunStart ==
    /\ runPc = "start" /\ next = 0 /\ wg = 0 /\ sem = 0
    /\ seasons = <<>> /\ wpc = <<>> /\ wi = <<>> /\ wbuf = <<>> /\ woff = <<>>
    /\ files = [n \in 1..MaxSeason |-> NoFile]

\* parse.Run lines 23-39: getAllSeasons and the channel
ParseBegin ==
    /\ runPc = "start" /\ mode = "parse"
    /\ seasons' = GetAllSeasons(fs.top)
    /\ wpc' = [w \in 1..Len(GetAllSeasons(fs.top)) |-> "idle"]
    /\ wi' = [w \in 1..Len(GetAllSeasons(fs.top)) |-> 0]
    /\ wbuf' = [w \in 1..Len(GetAllSeasons(fs.top)) |-> <<>>]
    /\ woff' = [w \in 1..Len(GetAllSeasons(fs.top)) |-> 0]
    /\ runPc' = "loop"
    /\ UNCHANGED <<mode, fs, numThreads, next, wg, sem, files>>
    /\ UNCHANGED <<valueVars, roundVars, episodeVars>>

\* download.Run lines 33-48: the default season and the channel
DownloadBegin ==
    /\ runPc = "start" /\ mode = "download"
    /\ seasons' = (IF Len(fs.args) = 0 THEN <<latestSeason>> ELSE fs.args)
    /\ wpc' = [w \in 1..(IF Len(fs.args) = 0 THEN 1 ELSE Len(fs.args)) |-> "idle"]
    /\ UNCHANGED <<wi, wbuf, woff>>
    /\ runPc' = "loop"
    /\ UNCHANGED <<mode, fs, numThreads, next, wg, sem, files>>
    /\ UNCHANGED <<valueVars, roundVars, episodeVars>>

\* wg.Add(1), line 41 of parse and 51 of download
RunAdd ==
    /\ runPc = "loop" /\ next < Len(seasons)
    /\ wg' = wg + 1
    /\ runPc' = "send"
    /\ UNCHANGED <<mode, fs, numThreads, seasons, next, sem, wpc, wi, wbuf, woff, files>>
    /\ UNCHANGED <<valueVars, roundVars, episodeVars>>

\* sem <- struct{}{} and the go statement, lines 42-47 of parse, 52-57 of download
RunSend ==
    /\ runPc = "send"
    /\ sem < numThreads
    /\ sem' = sem + 1
    /\ wpc' = [wpc EXCEPT ![next + 1] = "spawned"]
    /\ next' = next + 1
    /\ runPc' = "loop"
    /\ UNCHANGED <<mode, fs, numThreads, seasons, wg, wi, wbuf, woff, files>>
    /\ UNCHANGED <<valueVars, roundVars, episodeVars>>

\* wg.Wait() and the return, lines 49-50 of parse, 60 of download
RunWait ==
    /\ runPc = "loop" /\ next = Len(seasons)
    /\ wg = 0
    /\ runPc' = "done"
    /\ UNCHANGED <<mode, fs, numThreads, seasons, next, wg, sem, wpc, wi, wbuf, woff, files>>
    /\ UNCHANGED <<valueVars, roundVars, episodeVars>>

\* parseSeason lines 76-98: ReadDir, os.Create, the buffered header
SeasonOpen(w) ==
    /\ mode = "parse" /\ wpc[w] = "spawned"
    /\ IF SeasonDirExists(fs.top, seasons[w])
       THEN /\ files' = [files EXCEPT ![seasons[w]] = [exists |-> TRUE, rows |-> <<>>]]
            /\ wbuf' = [wbuf EXCEPT ![w] = <<Header>>]
            /\ woff' = [woff EXCEPT ![w] = 0]
            /\ wi' = [wi EXCEPT ![w] = 0]
            /\ wpc' = [wpc EXCEPT ![w] = "entries"]
       ELSE /\ wpc' = [wpc EXCEPT ![w] = "release"]
            /\ UNCHANGED <<files, wbuf, woff, wi>>
    /\ UNCHANGED <<mode, fs, numThreads, seasons, runPc, next, wg, sem>>
    /\ UNCHANGED <<valueVars, roundVars, episodeVars>>

\* The rows a csv.Writer holds after rs are written to it: its buffer is
\* written to the file when it is full.
Buffered(buf, rs) == IF Len(buf \o rs) > BufCap THEN <<>> ELSE buf \o rs

Flushed(buf, rs) == IF Len(buf \o rs) > BufCap THEN buf \o rs ELSE <<>>

\* parseSeason lines 100-117: one entry of the season directory
SeasonEntry(w) ==
    /\ mode = "parse" /\ wpc[w] = "entries"
    /\ wi[w] < Len(fs.entries)
    /\ LET kind == fs.entries[wi[w] + 1]
           rs == IF kind = "ok" THEN EpisodeRows(seasons[w], wi[w] + 1) ELSE <<>>
           out == Flushed(wbuf[w], rs) IN
        /\ wbuf' = [wbuf EXCEPT ![w] = Buffered(wbuf[w], rs)]
        /\ woff' = [woff EXCEPT ![w] = woff[w] + Len(out)]
        /\ files' = [files EXCEPT ![seasons[w]].rows =
                         IF out = <<>> THEN @ ELSE WriteAt(@, woff[w], out)]
    /\ wi' = [wi EXCEPT ![w] = wi[w] + 1]
    /\ UNCHANGED <<mode, fs, numThreads, seasons, runPc, next, wg, sem, wpc>>
    /\ UNCHANGED <<valueVars, roundVars, episodeVars>>

\* parseSeason lines 118-119: the deferred writer.Flush() and csvFile.Close()
SeasonClose(w) ==
    /\ mode = "parse" /\ wpc[w] = "entries"
    /\ wi[w] = Len(fs.entries)
    /\ files' = [files EXCEPT ![seasons[w]].rows =
                     IF wbuf[w] = <<>> THEN @ ELSE WriteAt(@, woff[w], wbuf[w])]
    /\ woff' = [woff EXCEPT ![w] = woff[w] + Len(wbuf[w])]
    /\ wbuf' = [wbuf EXCEPT ![w] = <<>>]
    /\ wpc' = [wpc EXCEPT ![w] = "release"]
    /\ UNCHANGED <<mode, fs, numThreads, seasons, runPc, next, wg, sem, wi>>
    /\ UNCHANGED <<valueVars, roundVars, episodeVars>>

\* downloadSeason, lines 64-139 of download: it touches nothing Run reads
SeasonDownload(w) ==
    /\ mode = "download" /\ wpc[w] = "spawned"
    /\ wpc' = [wpc EXCEPT ![w] = "release"]
    /\ UNCHANGED <<mode, fs, numThreads, seasons, runPc, next, wg, sem, wi, wbuf, woff, files>>
    /\ UNCHANGED <<valueVars, roundVars, episodeVars>>

\* <-sem, line 46 of parse and 56 of download
SeasonRelease(w) ==
    /\ wpc[w] = "release"
    /\ sem' = SemRelease(sem)
    /\ wpc' = [wpc EXCEPT ![w] = "deferred"]
    /\ UNCHANGED <<mode, fs, numThreads, seasons, runPc, next, wg, wi, wbuf, woff, files>>
    /\ UNCHANGED <<valueVars, roundVars, episodeVars>>

\* the deferred wg.Done(), line 44 of parse and 54 of download
SeasonDone(w) ==
    /\ wpc[w] = "deferred"
    /\ wg' = wg - 1
    /\ wpc' = [wpc EXCEPT ![w] = "finished"]
    /\ UNCHANGED <<mode, fs, numThreads, seasons, runPc, next, sem, wi, wbuf, woff, files>>
    /\ UNCHANGED <<valueVars, roundVars, episodeVars>>

RunNext ==
    \/ ParseBegin
    \/ DownloadBegin
    \/ RunAdd
    \/ RunSend
    \/ RunWait
    \/ \E w \in Workers : SeasonOpen(w)
    \/ \E w \in Workers : SeasonEntry(w)
    \/ \E w \in Workers : SeasonClose(w)
    \/ \E w \in Workers : SeasonDownload(w)
    \/ \E w \in Workers : SeasonRelease(w)
    \/ \E w \in Workers : SeasonDone(w)

EntryKinds == {"ok", "fail", "dir"}

\* parse mode over every site folder and every listing of at most MaxEntries
\* entries; download mode over 0..MaxArgs seasons.
RunInit ==
    /\ numThreads \in {NumThreads(c) : c \in 1..MaxCPU}
    /\ \/ /\ mode = "parse"
          /\ fs \in [top : TopListings, entries : SeqUpTo(EntryKinds, MaxEntries), args : {<<>>}]
       \/ /\ mode = "download"
          /\ fs \in [top : {<<>>}, entries : {<<>>}, args : {[k \in 1..n |-> k] : n \in 0..MaxArgs}]
    /\ RunStart

\* The same, with one listing for the season directories.
FanOutInit ==
    /\ numThreads \in {NumThreads(c) : c \in 1..MaxCPU}
    /\ \/ /\ mode = "parse"
          /\ fs \in [top : TopListings, entries : {<<"ok">>}, args : {<<>>}]
       \/ /\ mode = "download"
          /\ fs \in [top : {<<>>}, entries : {<<>>}, args : {[k \in 1..n |-> k] : n \in 0..MaxArgs}]
    /\ RunStart

(***************************************************************************)
(* Specifications of the two pure parts above.                             *)
(***************************************************************************)
EpisodeIdle ==
    /\ page = <<>> /\ epc = "idle" /\ has = <<>> /\ rounds = <<>> /\ err = ""

RunIdle ==
    /\ mode = "idle" /\ fs = <<>> /\ numThreads = 0 /\ seasons = <<>>
    /\ runPc = "idle" /\ next = 0 /\ wg = 0 /\ sem = 0
    /\ wpc = <<>> /\ wi = <<>> /\ wbuf = <<>> /\ woff = <<>> /\ files = <<>>

EpisodeIdleAll == EpisodeIdle /\ epNum = <<>> /\ airDate = <<>>

SpecRunInit == RunInit /\ ValueIdle /\ RoundIdle /\ EpisodeIdleAll

SpecRun == SpecRunInit /\ [][RunNext]_vars

SpecFanOutInit == FanOutInit /\ ValueIdle /\ RoundIdle /\ EpisodeIdleAll

SpecFanOut == SpecFanOutInit /\ [][RunNext]_vars /\ WF_vars(RunNext)

SpecValueInit ==
    /\ ValueInit /\ RoundIdle /\ EpisodeIdle /\ RunIdle
    /\ epNum = <<>> /\ airDate = <<>>

SpecValueNext == ReadValue

SpecValue == SpecValueInit /\ [][SpecValueNext]_vars

SpecRoundInit ==
    /\ RoundInit /\ ValueIdle /\ EpisodeIdle /\ RunIdle
    /\ epNum = SampleEpNum /\ airDate = SampleAirDate

SpecRoundNext == SkipEmptyCell \/ EmitClue

SpecRound == SpecRoundInit /\ [][SpecRoundNext]_vars

SpecEpisodeInit ==
    /\ page \in Pages /\ EpisodeStart
    /\ ValueIdle /\ RoundIdle /\ RunIdle

SpecEpisode == SpecEpisodeInit /\ [][EpisodeNext]_vars

SpecTitleInit ==
    /\ page \in TitlePages /\ EpisodeStart
    /\ ValueIdle /\ RoundIdle /\ RunIdle

SpecTitle == SpecTitleInit /\ [][EpisodeNext]_vars

(***************************************************************************)
(* Claims about the grid round.                                            *)
(***************************************************************************)
\* Positions (from 1) of the visited cells whose text is not empty, in order.
NonEmptyPos ==
    SelectSeq([p \in 1..Len(cells) |-> p], LAMBDA p : ~CellTextEmpty(cells[p]))

\* C1: a grid round with N <= 6 categories emits one Record per non-empty cell,
\* in cell order; the Record of the cell at ordinal p (from 0, empty cells
\* counted) has category categories[p mod 6] when p mod 6 < N and "" otherwise;
\* every cell, empty or not, advances the cursor by one.
C1_GridRecords ==
    LET pos == NonEmptyPos IN
    /\ Len(rows) = Len(pos)
    /\ \A k \in 1..Len(rows) :
        LET p == pos[k] - 1 IN
        /\ rows[k].category =
              (IF p % 6 < Len(categories) THEN categories[(p % 6) + 1] ELSE "")
        /\ rows[k].question = ClueQuestion(cells[pos[k]])
    /\ x = Len(cells) % 6

\* C1 witness: seven cells, an empty one among the first six, the seventh
\* emitted under the first category again, and a Record with no category.
C1_Witness ==
    /\ Len(cells) >= 7
    /\ Len(categories) = 3
    /\ CellTextEmpty(cells[2])
    /\ ~CellTextEmpty(cells[7])
    /\ rows # <<>>
    /\ rows[Len(rows)].category = "c1"
    /\ \E k \in 1..Len(rows) : rows[k].category = ""

\* A cell whose visible clue text is empty and that holds hidden text.
IsPlaceholder(c) ==
    /\ ClueQuestion(c) = ""
    /\ \E k \in 1..Len(c.tds) : c.tds[k].hidden /\ c.tds[k].text # ""

\* C3: a cell with empty visible clue text and non-empty hidden text emits no
\* Record, and the cursor advances by exactly one.
C3_PlaceholderEmitsNothing ==
    [][(Len(cells') = Len(cells) + 1 /\ IsPlaceholder(cells'[Len(cells')]))
          => (rows' = rows /\ x' = (x + 1) % NumCols)]_vars

\* The first td.clue_text of a cell that is not hidden (0 if none).
FirstVisible(c) ==
    LET vis == {k \in 1..Len(c.tds) : ~c.tds[k].hidden} IN
    IF vis = {} THEN 0 ELSE CHOOSE k \in vis : \A j \in vis : k <= j

\* The answer C7 describes: the response of the element whose id is the id of
\* the visible clue-text element followed by "_r".
ResponseOfVisible(c) ==
    LET v == FirstVisible(c) IN
    IF v = 0 \/ c.tds[v].id = "" THEN ""
    ELSE LET sel == {k \in 1..Len(c.tds) : c.tds[k].id = c.tds[v].id \o "_r"} IN
         IF sel = {} THEN "" ELSE c.tds[CHOOSE k \in sel : \A j \in sel : k <= j].correct

\* C7: the answer of every emitted grid Record is the response paired with
\* the visible clue-text element, also when a hidden element comes first.
C7_AnswerOfVisibleClue ==
    LET pos == NonEmptyPos IN
    \A k \in 1..Len(rows) : rows[k].answer = ResponseOfVisible(cells[pos[k]])

(***************************************************************************)
(* Claims about value normalization.                                       *)
(***************************************************************************)
\* The raw text as C2 reads it: its daily-double or currency prefix removed.
StripMarker(raw) ==
    IF HasPrefix(raw, <<"D", "D", ":", " ", "$">>) THEN SubSeq(raw, 6, Len(raw))
    ELSE IF HasPrefix(raw, DPrefix) THEN SubSeq(raw, 5, Len(raw))
    ELSE IF HasPrefix(raw, <<"$">>) THEN SubSeq(raw, 2, Len(raw))
    ELSE raw

\* C2: empty raw text gives "-100" and false; otherwise dailyDouble is true
\* exactly when the raw text starts with "DD:", and value is the raw text
\* without its prefix and commas, digits only ("DD: $1,200" gives "1200").
C2_ValueNormalized ==
    vpc = "done" =>
        IF valueRaw = <<>>
        THEN value = Sentinel /\ dailyDouble = "false"
        ELSE /\ dailyDouble = "true" <=> HasPrefix(valueRaw, DDMarker)
             /\ (\A k \in 1..Len(StripMarker(valueRaw)) :
                    StripMarker(valueRaw)[k] \in Digits \cup {","})
                 => /\ value = RemoveAll(StripMarker(valueRaw), ",")
                    /\ \A k \in 1..Len(value) : value[k] \in Digits

(***************************************************************************)
(* Claims about one episode.                                               *)
(***************************************************************************)
Detected(p) == p.j.present \/ p.dj.present \/ p.final \/ Len(p.blocks) > 1

\* C4: parseEpisode fails with the no-rounds-found error, returning no
\* Records, exactly when none of the four round kinds is detected; with at
\* least one detected it succeeds, also when the rounds produce no Records.
C4_NoRoundsExactly ==
    (epc = "done" /\ page.readable) =>
        /\ err = "norounds" <=> ~Detected(page)
        /\ err = "norounds" => rounds = <<>>
        /\ err # "norounds" => err = ""

\* C4 witness: a page whose only round is a grid of empty cells has been
\* parsed with success and without Records.
C4_Witness ==
    /\ epc = "done" /\ err = ""
    /\ page.j.present /\ ~page.dj.present /\ ~page.final
    /\ page.j.cells # <<>>
    /\ Flatten(rounds) = <<>>

RoundRank(name) ==
    CASE name = "Jeopardy" -> 0
      [] name = "Double Jeopardy" -> 1
      [] name = "Final Jeopardy" -> 2
      [] name = "Tiebreaker" -> 3
      [] OTHER -> 4

Named(recs, name) == SelectSeq(recs, LAMBDA r : r.round_name = name)

\* The questions of the cells of a grid table that have text, in document order.
GridQuestions(t) ==
    LET ne == SelectSeq(t.cells, LAMBDA c : ~CellTextEmpty(c)) IN
    [k \in 1..Len(ne) |-> ClueQuestion(ne[k])]

Questions(recs) == [k \in 1..Len(recs) |-> recs[k].question]

\* C5: the Records of an episode are grouped by round in the order Jeopardy,
\* Double Jeopardy, Final Jeopardy, Tiebreaker, absent rounds omitted and grid
\* clues in document order; Final Jeopardy and Tiebreaker give one Record each
\* with daily_double "false"; the Tiebreaker Record is there exactly when the
\* final container holds more than one block, right after the Final Record.
C5_RoundOrder ==
    (epc = "done" /\ err = "") =>
        LET recs == Flatten(rounds) IN
        /\ \A i, k \in 1..Len(recs) :
              i < k => RoundRank(recs[i].round_name) <= RoundRank(recs[k].round_name)
        /\ \A k \in 1..Len(recs) : RoundRank(recs[k].round_name) <= 3
        /\ Questions(Named(recs, "Jeopardy")) = GridQuestions(page.j)
        /\ Questions(Named(recs, "Double Jeopardy")) = GridQuestions(page.dj)
        /\ Len(Named(recs, "Final Jeopardy")) = (IF page.final THEN 1 ELSE 0)
        /\ Len(Named(recs, "Tiebreaker")) = (IF Len(page.blocks) > 1 THEN 1 ELSE 0)
        /\ \A k \in 1..Len(recs) :
              recs[k].round_name \in {"Final Jeopardy", "Tiebreaker"}
                 => recs[k].daily_double = "false"
        /\ \A k \in 1..Len(recs) :
              recs[k].round_name = "Tiebreaker"
                 => k > 1 /\ recs[k - 1].round_name = "Final Jeopardy"

\* C5 witness: an episode with Records of all four rounds has been parsed.
C5_Witness ==
    /\ epc = "done" /\ err = ""
    /\ Len(Named(Flatten(rounds), "Jeopardy")) = 2
    /\ Len(Named(Flatten(rounds), "Double Jeopardy")) = 1
    /\ Len(Named(Flatten(rounds), "Final Jeopardy")) = 1
    /\ Len(Named(Flatten(rounds), "Tiebreaker")) = 1

\* C8: the episode number of every Record is the 1 to 4 digits after the
\* first "#" of the title, the number the downloader takes from the same
\* text ("" without a match); the air date is the first YYYY-MM-DD of the
\* title or ""; neither makes extraction fail.
C8_EpisodeNumber ==
    (epc = "done" /\ page.readable) =>
        /\ err = "norounds" <=> ~Detected(page)
        /\ \A k \in 1..Len(Flatten(rounds)) :
              /\ Flatten(rounds)[k].epNum = EpNumReOf(page.title)
              /\ Len(Flatten(rounds)[k].epNum) <= 4
              /\ Flatten(rounds)[k].airDate = AirDateOf(page.title)

\* The texts of the td cells of a fragment that carry no attribute.
UnlabeledTexts(frag) ==
    LET un == SelectSeq(frag.tds, LAMBDA td : ~td.labeled) IN
    [k \in 1..Len(un) |-> TrimSpace(un[k].text)]

\* C9: the value of the Final Jeopardy Record is the comma-joined text of
\* exactly the unlabeled td cells of the mouseover fragment ("" without a
\* fragment); the value of the Tiebreaker Record is "".
C9_FinalValue ==
    (epc = "done" /\ err = "") =>
        \A k \in 1..Len(Flatten(rounds)) :
            /\ Flatten(rounds)[k].round_name = "Final Jeopardy"
                 => Flatten(rounds)[k].value =
                        JoinComma(UnlabeledTexts(BlockAt(page, 1).mouseover))
            /\ Flatten(rounds)[k].round_name = "Tiebreaker"
                 => Flatten(rounds)[k].value = <<>>

(***************************************************************************)
(* Claims about the season fan-out.                                        *)
(***************************************************************************)
\* The season goroutines that hold the csv file of season n open.
Writers(n) == {w \in Workers : seasons[w] = n /\ wpc[w] = "entries"}

\* The rows of the episodes of season n that parseEpisode succeeds on,
\* in the order of the directory listing.
RECURSIVE RowsFrom(_, _)
RowsFrom(n, i) ==
    IF i > Len(fs.entries) THEN <<>>
    ELSE (IF fs.entries[i] = "ok" THEN EpisodeRows(n, i) ELSE <<>>) \o RowsFrom(n, i + 1)

\* C6: under every interleaving and for every set of season directories
\* getAllSeasons finds, a season's output file has at most one writer at a
\* time and ends up holding the header and then the Records of the episodes
\* that were parsed with success, in the order of the directory listing.
C6_SingleWriterOrderedRows ==
    mode = "parse" =>
        /\ \A n \in 1..MaxSeason : Cardinality(Writers(n)) <= 1
        /\ runPc = "done" =>
              \A n \in 1..MaxSeason :
                  files[n].exists => files[n].rows = <<Header>> \o RowsFrom(n, 1)

\* The season goroutines that hold a slot of the channel.
InFlight == {w \in Workers : wpc[w] \in {"spawned", "entries", "release"}}

\* C10, the state part: at most numThreads season goroutines hold a slot;
\* Run has not returned before every season goroutine has finished; and
\* until Run returns some step is possible.
C10_Safe ==
    /\ Cardinality(InFlight) <= numThreads
    /\ runPc = "done" => \A w \in Workers : wpc[w] = "finished"
    /\ runPc # "done" => ENABLED RunNext

\* C10, the step part: a season goroutine is started at most once.
C10_StartedOnce ==
    \A w \in Workers :
        (w \in DOMAIN wpc' /\ wpc'[w] = "spawned" /\ wpc[w] # "spawned") => wpc[w] = "idle"

\* C10: for any number of seasons and any capacity of the channel the fan-out
\* never deadlocks, never has more than numThreads season goroutines holding
\* a slot, starts every season once, returns only after every season
\* goroutine has finished, and eventually returns.
C10_FanOut ==
    /\ []C10_Safe
    /\ [][C10_StartedOnce]_vars
    /\ <>(runPc = "done")

\* C10 witness: Run is blocked on the full channel with seasons left.
C10_Witness ==
    /\ runPc = "send"
    /\ sem = numThreads
    /\ Len(seasons) > numThreads
    /\ Cardinality(InFlight) = numThreads

====
